---- MODULE Spec2Model ----
(***************************************************************************)
(* Batch date filter of the search server: filterByScrapedDate of          *)
(* server.js and the resolver it calls, extractDateFromUrl of              *)
(* date-filter-module.js.                                                  *)
(*                                                                         *)
(* Time.  `now' is the reading of Date.now(), in milliseconds, counted     *)
(* from the call.  Synchronous code takes no time; time passes only while  *)
(* the function is suspended at `await Promise.all' (pc = "await").  A     *)
(* timer callback runs no earlier than its delay and possibly later (the   *)
(* event loop gives no upper bound), so time may pass a due timer; the     *)
(* history variable `late' records that this happened in the latest wave.  *)
(*                                                                         *)
(* Dates.  A Date object is its getTime() value, in milliseconds from the  *)
(* midnight of day 0; NaN is the value NaN.  A date string is a record:    *)
(* kind "none" (field absent, null or empty), "bad" (a string that does    *)
(* not parse), "ymd" (YYYY-MM-DD of day v) or "iso" (a timestamp string of *)
(* the instant v).                                                         *)
(***************************************************************************)
EXTENDS Integers, Sequences, FiniteSets, TLC

\* ------------------------------------------------------------------ bounds
MaxMixed == 2
MaxItems == 6
MaxScraped == 1
MaxNow == 33000
MaxBlocks == 2

\* ------------------------------------------------------- program constants
SCRAPE_CONCURRENCY == 5
OVERALL_TIMEOUT_MS == 25000
SCRAPE_TIMEOUT_MS == 8000
FETCH_ABORT_MS == 5000
DayMs == 86400000
NoTimeout == 2147483647
NaN == -1

\* the clock is read when a timer is due and at steps of the per-request
\* timeout
TimeStep == SCRAPE_TIMEOUT_MS

Min(a, b) == IF a <= b THEN a ELSE b

\* ------------------------------------------------------------- date values
NoDateStr == [k |-> "none", v |-> 0]
BadDateStr == [k |-> "bad", v |-> 0]
Ymd(d) == [k |-> "ymd", v |-> d]
Iso(t) == [k |-> "iso", v |-> t]

Days == 0 .. 2
HalfDayMs == DayMs \div 2

\* what a search provider can put in published_date
ProvidedDates ==
    {NoDateStr, BadDateStr} \cup {Ymd(d) : d \in Days} \cup {Iso(DayMs + HalfDayMs)}

\* what extractDateFromUrl can return when it finds a date
ScrapedInstants == {DayMs, DayMs + HalfDayMs, 2 * DayMs}

\* the ranges a caller asks for (start_date, end_date as days)
Ranges == {<<1, 1>>}

\* Boolean(item.published_date)
Truthy(s) == s.k # "none"

\* new Date(s).getTime()
ParseDate(s) ==
    CASE s.k = "ymd" -> s.v * DayMs
      [] s.k = "iso" -> s.v
      [] OTHER -> NaN

isNaN(ms) == ms = NaN

ToISOTimestamp(ms) == Iso(ms)

\* date.toISOString().split('T')[0]
ToISODate(ms) == Ymd(ms \div DayMs)

InRangeEndExclusive(pubMs, startMs, endMs) == pubMs >= startMs /\ pubMs < endMs

\* pubMs >= startMs && pubMs <= endMs
InRange(pubMs, startMs, endMs) == pubMs >= startMs /\ pubMs <= endMs

\* phase 1: the item has a date the filter can decide on
HasApiDate(item) ==
    Truthy(item.published_date) /\ ~isNaN(ParseDate(item.published_date))

DeadlineNeverChecked(elapsed) == FALSE

\* Date.now() - scrapeStartTime > OVERALL_TIMEOUT_MS
DeadlineExceeded(elapsed) == elapsed > OVERALL_TIMEOUT_MS

RaceTimeoutUnclamped(remaining) == SCRAPE_TIMEOUT_MS

\* Math.min(8000, remainingTime)
RaceTimeoutMs(remaining) == Min(SCRAPE_TIMEOUT_MS, remaining)

FallbackKeepsAlways(strict) == TRUE

\* deadline fallback: if (!strictMode) push
FallbackKeeps(strict) == ~strict

UnknownKeepsAlways(strict) == TRUE

\* no date found in a wave: if (!strictMode) push
UnknownKeeps(strict) == ~strict

\* url.toLowerCase().endsWith('.pdf') || includes('.pdf?')
isPdfUrl(url) == url = "pdf"

\* the timeout extractDateFromUrl puts on the request it issues
FetchTimeoutMs(url) == IF isPdfUrl(url) THEN NoTimeout ELSE FETCH_ABORT_MS

\* ------------------------------------------------------------------- state
VARIABLES
    results,          \* the item objects of the call, by position (mutated in place)
    input,            \* the items as the caller passed them
    startDate,        \* start_date, a day
    endDate,          \* end_date, a day
    strictMode,
    pc,               \* "start", "loop", "await", "done"
    filteredResults,  \* sequence of item positions
    needsScraping,    \* sequence of item positions
    i,                \* loop index of phase 2
    now,              \* Date.now()
    scrapeStartTime,
    batch,            \* the wave being awaited
    remainingTime,    \* as computed when the wave was started
    timerDue,         \* when the wave's setTimeout callbacks are due
    race,             \* per item: state of its Promise.race
    inFlight,         \* per item of the wave: requests issued and not yet ended
    abandoned,        \* requests of earlier waves, left behind by a timer that
                      \* won the race, and not yet ended
    fetchTimeout,     \* per item: timeout of the request issued for it
    issued,           \* per item: number of requests issued so far
    decidedBy,        \* per item: "none", or the path that decided it: "phase1",
                      \* "scraped", "unknown" (no date found in its wave), "fallback"
    late,             \* time has passed the due timer of the latest wave
    returnedAt,       \* Date.now() when the call returned
    run,              \* 1, or 2 once the caller has called again on the same objects
    firstOutput,      \* what the first call returned
    firstDecided,     \* decidedBy at the end of the first call
    endpoint,         \* the route that calls the filter: "none", "serper", "tavily"
    provider,         \* the items of the search provider's response
    origin,           \* per item of results: its position in provider
    rPc,              \* extractDateFromUrl: "idle", "start", "pdf", "fetch",
                      \* "ctpdf", "done"
    rUrl,             \* its argument: "html", "pdf" (.pdf suffix), "nourl" (undefined)
    rPath,            \* the date pattern in the path of the url
    rDoc,             \* what the remote server answers
    rRequests,        \* network requests issued by the resolution
    rResult,          \* what the resolution settled with
    gPc,              \* /api/generate: "idle", "start", "fetch", "wait",
                      \* "stream", "done"
    gAttempt,         \* attempt, the loop variable
    gRequests,        \* upstream requests issued so far
    gHistory,         \* how each settled upstream request ended, and the
                      \* rejection of a read of the upstream stream
    gWaits,           \* the seconds waited after each attempt that was retried
    gLastError,       \* lastError
    gWire,            \* what the handler has written to its response
    cPc,              \* generateLegalReport: "idle", "reading", "done"
    cPos,             \* events of the response it has processed
    cText,            \* accumulatedText
    cOutcome          \* how its call ended

filterVars == <<results, input, startDate, endDate, strictMode, pc,
                filteredResults, needsScraping, i, now, scrapeStartTime, batch,
                remainingTime, timerDue, race, inFlight, abandoned,
                fetchTimeout, issued, decidedBy, late, returnedAt>>

callerVars == <<run, firstOutput, firstDecided, endpoint, provider, origin>>

resolverVars == <<rPc, rUrl, rPath, rDoc, rRequests, rResult>>

generateVars == <<gPc, gAttempt, gRequests, gHistory, gWaits, gLastError,
                  gWire, cPc, cPos, cText, cOutcome>>

vars == <<filterVars, callerVars, resolverVars, generateVars>>

Item(pd, u) ==
    [title |-> "title", url |-> u, content |-> "content",
     published_date |-> pd, date_source |-> "none"]

PlainItem == Item(NoDateStr, "html")

ItemKinds ==
    {Item(pd, "html") : pd \in ProvidedDates}
        \cup {Item(pd, "pdf") : pd \in {NoDateStr, BadDateStr}}
        \cup {Item(NoDateStr, "nourl")}

\* the input lists: every list of up to MaxMixed items of any kind, and
\* the longer lists, up to MaxItems, of undated items
InputLists ==
    UNION {[1 .. n -> ItemKinds] : n \in 0 .. MaxMixed}
        \cup {[k \in 1 .. n |-> PlainItem] : n \in (MaxMixed + 1) .. MaxItems}

N == Len(input)
Ids == [k \in 1 .. N |-> k]
Idle == [s |-> "idle", d |-> NaN]
Pending == [s |-> "pending", d |-> NaN]
SeqToSet(q) == {q[k] : k \in 1 .. Len(q)}

startMs == ParseDate(Ymd(startDate))
endMs == ParseDate(Ymd(endDate))

\* a remote document: how the request for it ends (resp: "reject", "status"
\* for a non-2xx answer, "pdf" for Content-Type application/pdf, "html") and
\* the date strings its parts hold
Doc(resp, meta, jsonld, time, text, class, creation, mod, pdftext) ==
    [resp |-> resp, meta |-> meta, jsonld |-> jsonld, time |-> time,
     text |-> text, class |-> class, creation |-> creation, mod |-> mod,
     pdftext |-> pdftext]

NoDoc ==
    Doc("reject", NoDateStr, <<>>, NoDateStr, NoDateStr, NoDateStr, NoDateStr,
        NoDateStr, NoDateStr)

\* one call of the filter by a caller that is no route; no resolution is
\* looked at on its own
CallerIdle ==
    /\ run = 1
    /\ firstOutput = <<>>
    /\ firstDecided = <<>>
    /\ endpoint = "none"
    /\ provider = <<>>
    /\ origin = <<>>

ResolverIdle ==
    /\ rPc = "idle"
    /\ rUrl = "html"
    /\ rPath = NoDateStr
    /\ rDoc = NoDoc
    /\ rRequests = 0
    /\ rResult = Idle

NoOutcome == [kind |-> "none", msg |-> ""]

\* no report is being generated
GenerateIdle ==
    /\ gPc = "idle"
    /\ gAttempt = 1
    /\ gRequests = 0
    /\ gHistory = <<>>
    /\ gWaits = <<>>
    /\ gLastError = ""
    /\ gWire = <<>>
    /\ cPc = "idle"
    /\ cPos = 0
    /\ cText = <<>>
    /\ cOutcome = NoOutcome

Init ==
    /\ input \in InputLists
    /\ results = input
    /\ \E r \in Ranges : startDate = r[1] /\ endDate = r[2]
    /\ strictMode \in BOOLEAN
    /\ pc = "start"
    /\ filteredResults = <<>>
    /\ needsScraping = <<>>
    /\ i = 0
    /\ now = 0
    /\ scrapeStartTime = 0
    /\ batch = <<>>
    /\ remainingTime = 0
    /\ timerDue = 0
    /\ race = [k \in 1 .. Len(input) |-> Idle]
    /\ inFlight = [k \in 1 .. Len(input) |-> 0]
    /\ abandoned = 0
    /\ fetchTimeout = [k \in 1 .. Len(input) |-> 0]
    /\ issued = [k \in 1 .. Len(input) |-> 0]
    /\ decidedBy = [k \in 1 .. Len(input) |-> "none"]
    /\ late = FALSE
    /\ returnedAt = NaN
    /\ CallerIdle
    /\ ResolverIdle
    /\ GenerateIdle

\* ----------------------------------------------------------------- phase 1
Phase1KeepsAnyDated(id) == HasApiDate(results[id])

\* phase 1 pushes the item
Phase1Keeps(id) ==
    /\ HasApiDate(results[id])
    /\ InRange(ParseDate(results[id].published_date), startMs, endMs)

Phase1Defers(id) == ~HasApiDate(results[id])

\* the call up to the first pass of the phase 2 loop
Phase1 ==
    /\ pc = "start"
    /\ filteredResults' = SelectSeq(Ids, Phase1Keeps)
    /\ needsScraping' = SelectSeq(Ids, Phase1Defers)
    /\ decidedBy' = [k \in 1 .. N |->
                       IF HasApiDate(results[k]) THEN "phase1" ELSE "none"]
    /\ scrapeStartTime' = now
    /\ i' = 0
    /\ IF Len(needsScraping') > 0
         THEN pc' = "loop" /\ returnedAt' = returnedAt
         ELSE pc' = "done" /\ returnedAt' = now
    /\ UNCHANGED <<results, input, startDate, endDate, strictMode, now, batch,
                   remainingTime, timerDue, race, inFlight, abandoned,
                   fetchTimeout, issued, late>>
    /\ UNCHANGED <<callerVars, resolverVars, generateVars>>

\* ----------------------------------------------------------------- phase 2
Rest == SubSeq(needsScraping, i + 1, Len(needsScraping))

SliceFromPreviousItem ==
    SubSeq(needsScraping, IF i > 0 THEN i ELSE 1,
           Min(i + SCRAPE_CONCURRENCY, Len(needsScraping)))

\* needsScraping.slice(i, i + SCRAPE_CONCURRENCY)
Slice == SubSeq(needsScraping, i + 1, Min(i + SCRAPE_CONCURRENCY, Len(needsScraping)))

\* extractDateFromUrl(undefined) throws before it issues a request
Requested0(url) == url # "nourl"

Requested(k) == Requested0(results[k].url)

\* the race of an item of a wave that starts: pending on its request, or
\* already rejected by the throw
IssuedRace(k) == IF Requested(k) THEN Pending ELSE [s |-> "throw", d |-> NaN]

\* one pass of the loop head: leave the loop, apply the deadline fallback,
\* or start the next wave
LoopHead ==
    /\ pc = "loop"
    /\ IF ~(i < Len(needsScraping))
         THEN /\ pc' = "done"
              /\ returnedAt' = now
              /\ UNCHANGED <<filteredResults, batch, remainingTime, timerDue,
                             race, inFlight, fetchTimeout, issued, decidedBy,
                             late>>
         ELSE IF DeadlineExceeded(now - scrapeStartTime)
         THEN /\ filteredResults' =
                    IF FallbackKeeps(strictMode)
                      THEN filteredResults \o Rest ELSE filteredResults
              /\ decidedBy' = [k \in 1 .. N |->
                      IF k \in SeqToSet(Rest) THEN "fallback" ELSE decidedBy[k]]
              /\ pc' = "done"
              /\ returnedAt' = now
              /\ UNCHANGED <<batch, remainingTime, timerDue, race, inFlight,
                             fetchTimeout, issued, late>>
         ELSE /\ batch' = Slice
              /\ remainingTime' = OVERALL_TIMEOUT_MS - (now - scrapeStartTime)
              /\ timerDue' = now + RaceTimeoutMs(remainingTime')
              /\ race' = [k \in 1 .. N |->
                      IF k \in SeqToSet(Slice) THEN IssuedRace(k) ELSE race[k]]
              /\ inFlight' = [k \in 1 .. N |->
                      IF k \in SeqToSet(Slice) /\ Requested(k)
                        THEN inFlight[k] + 1 ELSE inFlight[k]]
              /\ issued' = [k \in 1 .. N |->
                      IF k \in SeqToSet(Slice) /\ Requested(k)
                        THEN issued[k] + 1 ELSE issued[k]]
              /\ fetchTimeout' = [k \in 1 .. N |->
                      IF k \in SeqToSet(Slice) /\ Requested(k)
                        THEN FetchTimeoutMs(results[k].url) ELSE fetchTimeout[k]]
              /\ late' = FALSE
              /\ pc' = "await"
              /\ UNCHANGED <<filteredResults, decidedBy, returnedAt>>
    /\ UNCHANGED <<results, input, startDate, endDate, strictMode,
                   needsScraping, i, now, scrapeStartTime, abandoned>>
    /\ UNCHANGED <<callerVars, resolverVars, generateVars>>

NeverPending == FALSE

SomePending == \E k \in SeqToSet(batch) : race[k].s = "pending"

NumScraped ==
    Cardinality({k \in 1 .. N : results[k].date_source = "scraped"
                                   \/ race[k].s = "date"})

\* what a request can end with: a date, or nothing (failure, abort, non-2xx
\* status, no date in the document)
FetchResults ==
    {[s |-> "null", d |-> NaN]}
        \cup IF NumScraped < MaxScraped
               THEN {[s |-> "date", d |-> t] : t \in ScrapedInstants} ELSE {}

\* the request of item id ends and extractDateFromUrl(item.url) settles
\* with res, before the timer of its race has run
FetchSettle(id, res) ==
    /\ pc = "await"
    /\ race[id].s = "pending"
    /\ inFlight[id] > 0
    /\ inFlight' = [inFlight EXCEPT ![id] = @ - 1]
    /\ race' = [race EXCEPT ![id] = res]
    /\ UNCHANGED <<results, input, startDate, endDate, strictMode, pc,
                   filteredResults, needsScraping, i, now, scrapeStartTime,
                   batch, remainingTime, timerDue, abandoned, fetchTimeout,
                   issued, decidedBy, late, returnedAt>>
    /\ UNCHANGED <<callerVars, resolverVars, generateVars>>

\* a request of an earlier wave ends; nothing awaits its result any more
AbandonedSettle ==
    /\ pc = "await"
    /\ abandoned > 0
    /\ abandoned' = abandoned - 1
    /\ UNCHANGED <<results, input, startDate, endDate, strictMode, pc,
                   filteredResults, needsScraping, i, now, scrapeStartTime,
                   batch, remainingTime, timerDue, race, inFlight,
                   fetchTimeout, issued, decidedBy, late, returnedAt>>
    /\ UNCHANGED <<callerVars, resolverVars, generateVars>>

\* no timer races the resolution
TimerNeverFires == FALSE /\ UNCHANGED vars

\* the setTimeout callbacks of the wave run: every race still pending rejects
TimerFire ==
    /\ pc = "await"
    /\ SomePending
    /\ now >= timerDue
    /\ race' = [k \in 1 .. N |->
            IF race[k].s = "pending" THEN [s |-> "timeout", d |-> NaN] ELSE race[k]]
    /\ UNCHANGED <<results, input, startDate, endDate, strictMode, pc,
                   filteredResults, needsScraping, i, now, scrapeStartTime,
                   batch, remainingTime, timerDue, inFlight, abandoned,
                   fetchTimeout, issued, decidedBy, late, returnedAt>>
    /\ UNCHANGED <<callerVars, resolverVars, generateVars>>

\* time passes while the call waits for the wave
Advance ==
    /\ pc = "await"
    /\ SomePending
    /\ \E t \in {now + TimeStep, timerDue} :
          /\ t > now
          /\ t <= MaxNow
          /\ now' = t
          /\ late' = (late \/ t > timerDue)
    /\ UNCHANGED <<results, input, startDate, endDate, strictMode, pc,
                   filteredResults, needsScraping, i, scrapeStartTime, batch,
                   remainingTime, timerDue, race, inFlight, abandoned,
                   fetchTimeout, issued, decidedBy, returnedAt>>
    /\ UNCHANGED <<callerVars, resolverVars, generateVars>>

RECURSIVE SumTo(_, _)
SumTo(f, n) == IF n = 0 THEN 0 ELSE f[n] + SumTo(f, n - 1)

\* requests of the awaited wave that have not ended
InFlightOfWave == SumTo(inFlight, N)

\* a rejection in the wave loses the whole wave
WaveKeepsUnlessAnyFailed(id) ==
    /\ \A k \in SeqToSet(batch) : race[k].s \notin {"throw", "timeout"}
    /\ IF race[id].s = "date"
         THEN InRange(race[id].d, startMs, endMs)
         ELSE UnknownKeeps(strictMode)

WaveKeeps(id) ==
    IF race[id].s = "date"
      THEN InRange(race[id].d, startMs, endMs)
      ELSE UnknownKeeps(strictMode)

StampedOrCleared(item, r) ==
    IF r.s = "date"
      THEN [item EXCEPT !.published_date = ToISODate(r.d),
                        !.date_source = "scraped"]
      ELSE [item EXCEPT !.published_date = NoDateStr]

\* if (scrapedDate) { item.published_date = ...; item.date_source = 'scraped' }
Stamped(item, r) ==
    IF r.s = "date"
      THEN [item EXCEPT !.published_date = ToISODate(r.d),
                        !.date_source = "scraped"]
      ELSE item

\* Promise.all resolved: the results of the wave are folded into the output
WaveFold ==
    /\ pc = "await"
    /\ ~SomePending
    /\ results' = [k \in 1 .. N |->
            IF k \in SeqToSet(batch) THEN Stamped(results[k], race[k])
            ELSE results[k]]
    /\ filteredResults' = filteredResults \o SelectSeq(batch, WaveKeeps)
    /\ decidedBy' = [k \in 1 .. N |->
            IF k \in SeqToSet(batch)
              THEN (IF race[k].s = "date" THEN "scraped" ELSE "unknown")
              ELSE decidedBy[k]]
    /\ race' = [k \in 1 .. N |-> Idle]
    /\ abandoned' = abandoned + InFlightOfWave
    /\ inFlight' = [k \in 1 .. N |-> 0]
    /\ batch' = <<>>
    /\ i' = i + SCRAPE_CONCURRENCY
    /\ pc' = "loop"
    /\ UNCHANGED <<input, startDate, endDate, strictMode, needsScraping, now,
                   scrapeStartTime, remainingTime, timerDue, fetchTimeout,
                   issued, late, returnedAt>>
    /\ UNCHANGED <<callerVars, resolverVars, generateVars>>

Next ==
    \/ Phase1
    \/ LoopHead
    \/ \E id \in 1 .. N : \E res \in FetchResults : FetchSettle(id, res)
    \/ AbandonedSettle
    \/ TimerFire
    \/ Advance
    \/ WaveFold

Spec == Init /\ [][Next]_vars

\* timers do run and time does pass; requests may never end
LiveSpec ==
    Spec /\ WF_vars(Phase1) /\ WF_vars(LoopHead) /\ WF_vars(WaveFold)
         /\ WF_vars(TimerFire) /\ WF_vars(Advance)

TypeOK ==
    /\ pc \in {"request", "start", "loop", "await", "done"}
    /\ SeqToSet(filteredResults) \subseteq 1 .. N
    /\ i >= 0

\* ------------------------------------------------- the filter, called twice
\* the caller passes the same item objects, range and strictMode to a second
\* call; the objects are as the first call left them
CallAgain ==
    /\ pc = "done"
    /\ run = 1
    /\ run' = 2
    /\ firstOutput' = filteredResults
    /\ firstDecided' = decidedBy
    /\ pc' = "start"
    /\ filteredResults' = <<>>
    /\ needsScraping' = <<>>
    /\ i' = 0
    /\ decidedBy' = [k \in 1 .. N |-> "none"]
    /\ late' = FALSE
    /\ returnedAt' = NaN
    /\ UNCHANGED <<results, input, startDate, endDate, strictMode, now,
                   scrapeStartTime, batch, remainingTime, timerDue, race,
                   inFlight, abandoned, fetchTimeout, issued>>
    /\ UNCHANGED <<endpoint, provider, origin, resolverVars, generateVars>>

TwiceNext == Next \/ CallAgain

TwiceSpec == Init /\ [][TwiceNext]_vars

\* ------------------------------------------------------ the search routes
\* an item of a provider's response: its date field (date for Serper,
\* published_date for Tavily), its url, and the dates the Tavily route can
\* read in the url path and in the content snippet
RawItem(pd, u, ud, cd) ==
    [published_date |-> pd, url |-> u, urlDate |-> ud, contentDate |-> cd]

RawKinds ==
    {RawItem(pd, "html", ud, cd) :
        pd \in ProvidedDates, ud \in {NoDateStr, Ymd(1)}, cd \in {NoDateStr, Ymd(2)}}

PlainRawItem == RawItem(NoDateStr, "html", NoDateStr, NoDateStr)

\* the provider's lists: every list of up to MaxMixed items of any kind, and
\* the longer lists, up to MaxItems, of items without any date
RawLists ==
    UNION {[1 .. n -> RawKinds] : n \in 0 .. MaxMixed}
        \cup {[k \in 1 .. n |-> PlainRawItem] : n \in (MaxMixed + 1) .. MaxItems}

RawIds == [r \in 1 .. Len(provider) |-> r]

\* a request with start_date and end_date has arrived and the provider has
\* answered
EndpointInit ==
    /\ provider \in RawLists
    /\ \E r \in Ranges : startDate = r[1] /\ endDate = r[2]
    /\ strictMode \in BOOLEAN
    /\ pc = "request"
    /\ endpoint = "none"
    /\ origin = <<>>
    /\ input = <<>>
    /\ results = <<>>
    /\ filteredResults = <<>>
    /\ needsScraping = <<>>
    /\ i = 0
    /\ now = 0
    /\ scrapeStartTime = 0
    /\ batch = <<>>
    /\ remainingTime = 0
    /\ timerDue = 0
    /\ race = <<>>
    /\ inFlight = <<>>
    /\ abandoned = 0
    /\ fetchTimeout = <<>>
    /\ issued = <<>>
    /\ decidedBy = <<>>
    /\ late = FALSE
    /\ returnedAt = NaN
    /\ run = 1
    /\ firstOutput = <<>>
    /\ firstDecided = <<>>
    /\ ResolverIdle
    /\ GenerateIdle

\* /api/search: if (!item.date) return true; if (isNaN(...)) return true;
\* return pubDate >= startMs && pubDate <= endMs
SerperKeeps(r) ==
    \/ ~Truthy(provider[r].published_date)
    \/ isNaN(ParseDate(provider[r].published_date))
    \/ InRange(ParseDate(provider[r].published_date), startMs, endMs)

\* /api/search-tavily: if (!item.published_date) return true;
\* return pubMs >= startMs && pubMs <= endMs, false when pubMs is NaN
TavilyKeeps(r) ==
    \/ ~Truthy(provider[r].published_date)
    \/ /\ ~isNaN(ParseDate(provider[r].published_date))
       /\ InRange(ParseDate(provider[r].published_date), startMs, endMs)

\* published_date: item.date || null
SerperDate(raw) == raw.published_date

\* item.published_date, else the date of the url path, else the date of the
\* content snippet, else null
TavilyDate(raw) ==
    IF Truthy(raw.published_date) THEN raw.published_date
    ELSE IF Truthy(raw.urlDate) THEN raw.urlDate
    ELSE raw.contentDate

\* the route hands its list to filterByScrapedDate
CallFilter(kept, list) ==
    /\ origin' = kept
    /\ results' = list
    /\ input' = list
    /\ race' = [k \in 1 .. Len(list) |-> Idle]
    /\ inFlight' = [k \in 1 .. Len(list) |-> 0]
    /\ fetchTimeout' = [k \in 1 .. Len(list) |-> 0]
    /\ issued' = [k \in 1 .. Len(list) |-> 0]
    /\ decidedBy' = [k \in 1 .. Len(list) |-> "none"]
    /\ pc' = "start"
    /\ UNCHANGED <<provider, startDate, endDate, strictMode, filteredResults,
                   needsScraping, i, now, scrapeStartTime, batch,
                   remainingTime, timerDue, abandoned, late, returnedAt, run,
                   firstOutput, firstDecided, resolverVars, generateVars>>

SearchSerper ==
    /\ pc = "request"
    /\ endpoint' = "serper"
    /\ LET kept == SelectSeq(RawIds, SerperKeeps) IN
         CallFilter(kept, [j \in 1 .. Len(kept) |->
                             Item(SerperDate(provider[kept[j]]), provider[kept[j]].url)])

SearchTavily ==
    /\ pc = "request"
    /\ endpoint' = "tavily"
    /\ LET kept == SelectSeq(RawIds, TavilyKeeps) IN
         CallFilter(kept, [j \in 1 .. Len(kept) |->
                             Item(TavilyDate(provider[kept[j]]), provider[kept[j]].url)])

EndpointNext == SearchSerper \/ SearchTavily \/ Next

EndpointSpec == EndpointInit /\ [][EndpointNext]_vars

\* ------------------------------------------- extractDateFromUrl, one call
\* a JSON-LD block whose content JSON.parse rejects
BadJson == [k |-> "badjson", v |-> 0]

\* the /YYYY/MM/ of a url path; day 0 is the first day of month 0, months
\* are counted as 30 days, and MidMonth is the 15th
Ym(m) == [k |-> "ym", v |-> m]
MidMonth(m) == Ymd(30 * m + 14)

\* the date strings a part of a document can hold: none, one that does not
\* parse, or a date
PartDates == {NoDateStr, BadDateStr, Ymd(1), Ymd(2)}

UrlPaths == {NoDateStr, BadDateStr, Ymd(1), Ymd(2), Ym(0)}

\* a JSON-LD block that parses: its datePublished and dateCreated, the
\* datePublished of the first item of its @graph that has one, and a
\* dateCreated of an item of its @graph
JsonBlock(pub, created, gpub, gcreated) ==
    [pub |-> pub, created |-> created, gpub |-> gpub, gcreated |-> gcreated]

DirectBlocks ==
    {JsonBlock(d, NoDateStr, NoDateStr, NoDateStr) : d \in PartDates}

BlockKinds ==
    {BadJson} \cup DirectBlocks
        \cup {JsonBlock(d, Ymd(1), NoDateStr, NoDateStr) : d \in {NoDateStr, BadDateStr}}
        \cup {JsonBlock(NoDateStr, NoDateStr, Ymd(2), NoDateStr),
               JsonBlock(NoDateStr, NoDateStr, NoDateStr, Ymd(1))}

JsonLdBlocks == UNION {[1 .. n -> BlockKinds] : n \in 0 .. MaxBlocks}

\* the markup documents: every combination of the other parts with at most
\* one plain block, and every sequence of blocks with a time element
HtmlDocs ==
    {Doc("html", m, j, t, x, c, NoDateStr, NoDateStr, NoDateStr) :
        m \in PartDates,
        j \in {<<>>} \cup {<<b>> : b \in DirectBlocks \cup {BadJson}},
        t \in PartDates, x \in PartDates, c \in PartDates}
    \cup
    {Doc("html", NoDateStr, j, t, NoDateStr, NoDateStr, NoDateStr, NoDateStr,
         NoDateStr) : j \in JsonLdBlocks, t \in {NoDateStr, Ymd(2)}}

PdfDocs ==
    {Doc("pdf", NoDateStr, <<>>, NoDateStr, NoDateStr, NoDateStr, c, m, x) :
        c \in PartDates, m \in PartDates, x \in PartDates}

FailDocs ==
    {Doc(r, NoDateStr, <<>>, NoDateStr, NoDateStr, NoDateStr, NoDateStr,
         NoDateStr, NoDateStr) : r \in {"reject", "status"}}

\* the documents a url with the .pdf suffix is tried on
PdfUrlDocs ==
    PdfDocs \cup FailDocs
        \cup {Doc("html", Ymd(1), <<>>, NoDateStr, NoDateStr, NoDateStr,
                   NoDateStr, NoDateStr, NoDateStr)}

Null == [s |-> "null", d |-> NaN]
Found(ms) == IF isNaN(ms) THEN Null ELSE [s |-> "date", d |-> ms]

\* new Date(str) of a matched string, NaN when nothing matched or the
\* date is invalid
DateOf(str) == IF Truthy(str) THEN ParseDate(str) ELSE NaN

\* data.datePublished || data.dateCreated ||
\* (data['@graph'] && data['@graph'].find(i => i.datePublished)?.datePublished)
BlockDateStr(b) ==
    IF Truthy(b.pub) THEN b.pub
    ELSE IF Truthy(b.created) THEN b.created
    ELSE b.gpub

\* the JSON-LD blocks in document order: a block that does not parse, has
\* no date or an invalid one is passed over
RECURSIVE JsonLdDate(_)
JsonLdDate(blocks) ==
    IF blocks = <<>> THEN NaN
    ELSE IF Head(blocks) # BadJson /\ ~isNaN(DateOf(BlockDateStr(Head(blocks))))
      THEN DateOf(BlockDateStr(Head(blocks)))
      ELSE JsonLdDate(Tail(blocks))

\* /YYYY/MM/DD/ in the url, else /YYYY/MM/x taken as the 15th
UrlPathDate(path) ==
    IF path.k = "ym" THEN ParseDate(MidMonth(path.v)) ELSE DateOf(path)

ExtractFromHtmlTextFirst(doc, path) ==
    IF ~isNaN(DateOf(doc.text)) THEN DateOf(doc.text)
    ELSE IF ~isNaN(DateOf(doc.meta)) THEN DateOf(doc.meta)
    ELSE IF ~isNaN(JsonLdDate(doc.jsonld)) THEN JsonLdDate(doc.jsonld)
    ELSE IF ~isNaN(DateOf(doc.time)) THEN DateOf(doc.time)
    ELSE IF ~isNaN(UrlPathDate(path)) THEN UrlPathDate(path)
    ELSE DateOf(doc.class)

\* the cascade over a markup document: meta tags, JSON-LD, time element,
\* url path, text patterns, class patterns
ExtractFromHtml(doc, path) ==
    IF ~isNaN(DateOf(doc.meta)) THEN DateOf(doc.meta)
    ELSE IF ~isNaN(JsonLdDate(doc.jsonld)) THEN JsonLdDate(doc.jsonld)
    ELSE IF ~isNaN(DateOf(doc.time)) THEN DateOf(doc.time)
    ELSE IF ~isNaN(UrlPathDate(path)) THEN UrlPathDate(path)
    ELSE IF ~isNaN(DateOf(doc.text)) THEN DateOf(doc.text)
    ELSE DateOf(doc.class)

ExtractDateFromPdfTextFirst(doc) ==
    IF doc.resp # "pdf" THEN NaN
    ELSE IF ~isNaN(DateOf(doc.pdftext)) THEN DateOf(doc.pdftext)
    ELSE IF ~isNaN(DateOf(doc.creation)) THEN DateOf(doc.creation)
    ELSE DateOf(doc.mod)

\* extractDateFromPdf: CreationDate, ModDate, text of the first page; null
\* when the parser cannot load a PDF from the url
ExtractDateFromPdf(doc) ==
    IF doc.resp # "pdf" THEN NaN
    ELSE IF ~isNaN(DateOf(doc.creation)) THEN DateOf(doc.creation)
    ELSE IF ~isNaN(DateOf(doc.mod)) THEN DateOf(doc.mod)
    ELSE DateOf(doc.pdftext)

\* no call of the filter is looked at
FilterIdle ==
    /\ input = <<>>
    /\ results = <<>>
    /\ \E r \in Ranges : startDate = r[1] /\ endDate = r[2]
    /\ strictMode = FALSE
    /\ pc = "start"
    /\ filteredResults = <<>>
    /\ needsScraping = <<>>
    /\ i = 0
    /\ now = 0
    /\ scrapeStartTime = 0
    /\ batch = <<>>
    /\ remainingTime = 0
    /\ timerDue = 0
    /\ race = <<>>
    /\ inFlight = <<>>
    /\ abandoned = 0
    /\ fetchTimeout = <<>>
    /\ issued = <<>>
    /\ decidedBy = <<>>
    /\ late = FALSE
    /\ returnedAt = NaN

ResolverInit ==
    /\ FilterIdle
    /\ CallerIdle
    /\ GenerateIdle
    /\ rPc = "start"
    /\ rRequests = 0
    /\ rResult = Idle
    /\ \/ rUrl = "nourl" /\ rDoc = NoDoc /\ rPath = NoDateStr
       \/ rUrl = "html" /\ rDoc \in HtmlDocs \cup PdfDocs \cup FailDocs
             /\ rPath \in UrlPaths
       \/ rUrl = "pdf" /\ rDoc \in PdfUrlDocs /\ rPath \in UrlPaths

\* the synchronous start of the call: a throw on a missing url, else the
\* request of the PDF parser or the fetch
ResolveStart ==
    /\ rPc = "start"
    /\ IF ~Requested0(rUrl)
         THEN rPc' = "done" /\ rResult' = [s |-> "throw", d |-> NaN]
                /\ rRequests' = rRequests
         ELSE /\ rPc' = IF isPdfUrl(rUrl) THEN "pdf" ELSE "fetch"
              /\ rRequests' = rRequests + 1
              /\ rResult' = rResult
    /\ UNCHANGED <<filterVars, callerVars, generateVars, rUrl, rPath, rDoc>>

\* a url with the .pdf suffix: extractDateFromPdf settles; without a date
\* the url path is tried
PdfSettle ==
    /\ rPc = "pdf"
    /\ rResult' = IF ~isNaN(ExtractDateFromPdf(rDoc))
                    THEN Found(ExtractDateFromPdf(rDoc))
                    ELSE Found(UrlPathDate(rPath))
    /\ rPc' = "done"
    /\ UNCHANGED <<filterVars, callerVars, generateVars, rUrl, rPath, rDoc, rRequests>>

\* the fetch settles: rejected or aborted, a non-2xx answer, a PDF by its
\* content type (handed to extractDateFromPdf(url), which requests the url
\* again), or markup
ResponseArrives ==
    /\ rPc = "fetch"
    /\ CASE rDoc.resp \in {"reject", "status"} ->
              rResult' = Null /\ rPc' = "done" /\ rRequests' = rRequests
         [] rDoc.resp = "pdf" ->
              rResult' = rResult /\ rPc' = "ctpdf" /\ rRequests' = rRequests + 1
         [] OTHER ->
              rResult' = Found(ExtractFromHtml(rDoc, rPath)) /\ rPc' = "done"
                /\ rRequests' = rRequests
    /\ UNCHANGED <<filterVars, callerVars, generateVars, rUrl, rPath, rDoc>>

\* extractDateFromPdf settles for a PDF found by its content type; the url
\* path is not tried
CtPdfSettle ==
    /\ rPc = "ctpdf"
    /\ rResult' = Found(ExtractDateFromPdf(rDoc))
    /\ rPc' = "done"
    /\ UNCHANGED <<filterVars, callerVars, generateVars, rUrl, rPath, rDoc, rRequests>>

ResolverNext == ResolveStart \/ PdfSettle \/ ResponseArrives \/ CtPdfSettle

ResolverSpec == ResolverInit /\ [][ResolverNext]_vars

\* ---------------------------------- /api/generate and generateLegalReport
MaxChunks == 2

\* const maxRetries = 3
maxRetries == 3

NonEmpty(s) == s # ""

JsonBody(m) == [kind |-> "json", msg |-> m]
TextBody(t) == [kind |-> "text", msg |-> t]

\* the body of an upstream answer that is not ok: JSON with or without
\* error.message, or text that is no JSON
Bodies ==
    {JsonBody(m) : m \in {"", "Overloaded", "Invalid request"}}
        \cup {TextBody(t) : t \in {"", "upstream overloaded"}}

Statuses == {529, 500}

Ok == [kind |-> "ok", status |-> 200, body |-> TextBody("")]
NotOk(st, b) == [kind |-> "fail", status |-> st, body |-> b]
Thrown == [kind |-> "throw", status |-> 0, body |-> TextBody("fetch failed")]

\* reader.read() rejected with an error of this message
ReadRejected(m) == [kind |-> "reject", status |-> 200, body |-> TextBody(m)]

\* how the fetch of one attempt can end
Outcomes == {Ok, Thrown} \cup {NotOk(st, b) : st \in Statuses, b \in Bodies}

\* `API error: ${response.status}`
ApiError(status) ==
    IF status = 529 THEN "API error: 529" ELSE "API error: 500"

\* errorData.error?.message || errorMessage, and for a body that is no
\* JSON errorText.substring(0, 200) || errorMessage
ErrorMessage(r) ==
    IF r.body.kind = "json"
      THEN IF NonEmpty(r.body.msg) THEN r.body.msg ELSE ApiError(r.status)
      ELSE IF NonEmpty(r.body.msg) THEN r.body.msg ELSE ApiError(r.status)

ToLowerCase(m) ==
    CASE m = "Overloaded" -> "overloaded"
      [] m = "Invalid request" -> "invalid request"
      [] m = "API error: 529" -> "api error: 529"
      [] m = "API error: 500" -> "api error: 500"
      [] OTHER -> m

\* .includes('overloaded')
IncludesOverloaded(m) == m \in {"overloaded", "upstream overloaded"}

RetriesEveryFailure(r) == TRUE

\* response.status === 529 || errorMessage.toLowerCase().includes('overloaded')
isOverloaded(r) ==
    r.status = 529 \/ IncludesOverloaded(ToLowerCase(ErrorMessage(r)))

\* what the handler writes to its response
Head200 == [t |-> "head200", m |-> ""]
Json500(msg) == [t |-> "json500", m |-> msg]
TextDelta(text) == [t |-> "text_delta", m |-> text]
DoneEvent == [t |-> "done", m |-> ""]
ErrorEvent(msg) == [t |-> "error", m |-> msg]
End == [t |-> "end", m |-> ""]

\* the messages of the errors reader.read() can reject with
ReadErrors ==
    {"", "terminated", "Claude streaming error", "Anthropic API error",
     "Unexpected end of JSON input", "upstream streaming error"}

\* what one read of the upstream stream gives: a text delta, message_stop,
\* the end of the stream, or a rejection
Chunks ==
    {[c |-> "delta", m |-> t] : t \in {"", "a"}}
        \cup {[c |-> "stop", m |-> ""], [c |-> "eof", m |-> ""]}
        \cup {[c |-> "reject", m |-> e] : e \in ReadErrors}

\* .includes('JSON'), .includes('streaming error'), .includes('API')
IncludesJSON(m) == m = "Unexpected end of JSON input"
IncludesStreamingError(m) ==
    m \in {"Claude streaming error", "upstream streaming error"}
IncludesAPI(m) == m \in {"Anthropic API error", "API error: 529", "API error: 500"}

\* the catch around the event of one line throws the error again
ClientRethrows(m) ==
    /\ NonEmpty(m)
    /\ m # "Claude streaming error"
    /\ ~IncludesJSON(m)
    /\ IncludesStreamingError(m) \/ IncludesAPI(m)

Rejected(msg) == [kind |-> "rejected", msg |-> msg]
Report(text) == [kind |-> "report", msg |-> text]

\* the client has sent its request and the handler has been entered
GenerateInit ==
    /\ \E r \in Ranges : startDate = r[1] /\ endDate = r[2]
    /\ input = <<>>
    /\ results = <<>>
    /\ strictMode = FALSE
    /\ pc = "start"
    /\ filteredResults = <<>>
    /\ needsScraping = <<>>
    /\ i = 0
    /\ now = 0
    /\ scrapeStartTime = 0
    /\ batch = <<>>
    /\ remainingTime = 0
    /\ timerDue = 0
    /\ race = <<>>
    /\ inFlight = <<>>
    /\ abandoned = 0
    /\ fetchTimeout = <<>>
    /\ issued = <<>>
    /\ decidedBy = <<>>
    /\ late = FALSE
    /\ returnedAt = NaN
    /\ CallerIdle
    /\ ResolverIdle
    /\ gPc = "start"
    /\ gAttempt = 1
    /\ gRequests = 0
    /\ gHistory = <<>>
    /\ gWaits = <<>>
    /\ gLastError = ""
    /\ gWire = <<>>
    /\ cPc = "waiting"
    /\ cPos = 0
    /\ cText = <<>>
    /\ cOutcome = NoOutcome

\* the handler up to its first await: the fetch of attempt 1
GenerateStart ==
    /\ gPc = "start"
    /\ gPc' = "fetch"
    /\ gRequests' = gRequests + 1
    /\ UNCHANGED <<gAttempt, gHistory, gWaits, gLastError, gWire>>
    /\ UNCHANGED <<cPc, cPos, cText, cOutcome>>
    /\ UNCHANGED <<filterVars, callerVars, resolverVars>>

CatchAnswers500(msg) ==
    /\ gWire' = Append(gWire, Json500(msg))
    /\ gPc' = "done"

\* the outer catch: res.headersSent decides between an SSE error event and
\* res.status(500).json
Catch(msg) ==
    /\ gWire' = IF Len(gWire) > 0
                  THEN gWire \o <<ErrorEvent(msg), End>>
                  ELSE <<Json500(msg)>>
    /\ gPc' = "done"

\* the fetch of an attempt settles: ok leaves the loop and writes the
\* headers, an overloaded answer before the last attempt starts the wait,
\* any other answer leaves the loop and throws, a rejected fetch throws
FetchSettles ==
    /\ gPc = "fetch"
    /\ \E o \in Outcomes :
         /\ gHistory' = Append(gHistory, o)
         /\ CASE o.kind = "ok" ->
                   /\ gWire' = <<Head200>>
                   /\ gPc' = "stream"
                   /\ UNCHANGED <<gWaits, gLastError>>
              [] o.kind = "throw" ->
                   /\ Catch(o.body.msg)
                   /\ UNCHANGED <<gWaits, gLastError>>
              [] OTHER ->
                   IF isOverloaded(o) /\ gAttempt < maxRetries
                     THEN /\ gWaits' = Append(gWaits, gAttempt * 5)
                          /\ gLastError' = ErrorMessage(o)
                          /\ gPc' = "wait"
                          /\ gWire' = gWire
                     ELSE /\ gLastError' = ErrorMessage(o)
                          /\ Catch(IF NonEmpty(ErrorMessage(o))
                                     THEN ErrorMessage(o)
                                     ELSE "Unknown error")
                          /\ gWaits' = gWaits
    /\ UNCHANGED <<gAttempt, gRequests>>
    /\ UNCHANGED <<cPc, cPos, cText, cOutcome>>
    /\ UNCHANGED <<filterVars, callerVars, resolverVars>>

\* the wait is over: continue, attempt++, the next fetch
WaitOver ==
    /\ gPc = "wait"
    /\ gAttempt' = gAttempt + 1
    /\ gRequests' = gRequests + 1
    /\ gPc' = "fetch"
    /\ UNCHANGED <<gHistory, gWaits, gLastError, gWire>>
    /\ UNCHANGED <<cPc, cPos, cText, cOutcome>>
    /\ UNCHANGED <<filterVars, callerVars, resolverVars>>

\* one reader.read() of the upstream stream settles
StreamChunk ==
    /\ gPc = "stream"
    /\ \E c \in Chunks :
       /\ gHistory' = IF c.c = "reject" THEN Append(gHistory, ReadRejected(c.m))
                       ELSE gHistory
       /\ CASE c.c = "delta" ->
                /\ Len(gWire) <= MaxChunks
                /\ gWire' = Append(gWire, TextDelta(c.m))
                /\ gPc' = gPc
           [] c.c = "stop" ->
                /\ Len(gWire) <= MaxChunks
                /\ gWire' = Append(gWire, DoneEvent)
                /\ gPc' = gPc
           [] c.c = "eof" ->
                /\ gWire' = Append(gWire, End)
                /\ gPc' = "done"
           [] OTHER -> Catch(c.m)
    /\ UNCHANGED <<gAttempt, gRequests, gWaits, gLastError>>
    /\ UNCHANGED <<cPc, cPos, cText, cOutcome>>
    /\ UNCHANGED <<filterVars, callerVars, resolverVars>>

\* the client's fetch resolves: !response.ok throws errorData.error ||
\* `API error: ${response.status}`, else the stream is read
ClientResponse ==
    /\ cPc = "waiting"
    /\ Len(gWire) > 0
    /\ IF gWire[1].t = "json500"
         THEN /\ cOutcome' = Rejected(IF NonEmpty(gWire[1].m) THEN gWire[1].m
                                      ELSE ApiError(500))
              /\ cPc' = "done"
         ELSE /\ cOutcome' = cOutcome
              /\ cPc' = "reading"
    /\ cPos' = 1
    /\ cText' = cText
    /\ UNCHANGED <<gPc, gAttempt, gRequests, gHistory, gWaits, gLastError, gWire>>
    /\ UNCHANGED <<filterVars, callerVars, resolverVars>>

\* the client processes the next line of the stream, or its end
ClientRead ==
    /\ cPc = "reading"
    /\ cPos < Len(gWire)
    /\ cPos' = cPos + 1
    /\ LET event == gWire[cPos + 1]
           thrown == IF NonEmpty(event.m) THEN event.m
                     ELSE "Claude streaming error"
       IN  CASE event.t = "text_delta" ->
                  /\ cText' = IF NonEmpty(event.m) THEN Append(cText, event.m)
                              ELSE cText
                  /\ UNCHANGED <<cPc, cOutcome>>
             [] event.t = "error" ->
                  IF ClientRethrows(thrown)
                    THEN /\ cOutcome' = Rejected(thrown)
                         /\ cPc' = "done"
                         /\ cText' = cText
                    ELSE UNCHANGED <<cPc, cOutcome, cText>>
             [] event.t = "end" ->
                  /\ cOutcome' = Report(IF cText = <<>>
                                          THEN "No report generated."
                                          ELSE "accumulatedText")
                  /\ cPc' = "done"
                  /\ cText' = cText
             [] OTHER -> UNCHANGED <<cPc, cOutcome, cText>>
    /\ UNCHANGED <<gPc, gAttempt, gRequests, gHistory, gWaits, gLastError, gWire>>
    /\ UNCHANGED <<filterVars, callerVars, resolverVars>>

GenerateNext ==
    \/ GenerateStart
    \/ FetchSettles
    \/ WaitOver
    \/ StreamChunk
    \/ ClientResponse
    \/ ClientRead

GenerateSpec == GenerateInit /\ [][GenerateNext]_vars

\* ------------------------------------------------------------- properties
Output == SeqToSet(filteredResults)
Undecided(k) == decidedBy[k] = "none"
NoDateFound(k) == decidedBy[k] = "unknown"
Elapsed == now - scrapeStartTime

\* number of requests issued and neither completed nor cancelled
InFlightTotal == InFlightOfWave + abandoned

C2_UndatedLenientMarkedUnknown ==
    (pc = "done" /\ ~strictMode)
    => \A k \in 1 .. N :
          NoDateFound(k) => (k \in Output /\ results[k].date_source = "unknown")

\* C3: with strictMode true, an item for which resolution yields no date
\* (failure, per-item timeout, nothing found) is never in the output.
C3_UndatedStrictDropped ==
    strictMode => \A k \in 1 .. N : NoDateFound(k) => k \notin Output

C3_Witness ==
    /\ pc = "done"
    /\ strictMode
    /\ abandoned > 0
    /\ \E k \in 1 .. N : \E j \in 1 .. N :
          /\ NoDateFound(k) /\ k \notin Output
          /\ decidedBy[j] = "phase1" /\ j \in Output

\* C4: during phase 2 at most SCRAPE_CONCURRENCY requests are in flight,
\* counting the requests of every wave.
C4_InFlightBounded ==
    pc \in {"loop", "await"} => InFlightTotal <= SCRAPE_CONCURRENCY

\* C5: when more than OVERALL_TIMEOUT_MS have elapsed at the moment a wave
\* would start, that pass issues no request and ends the loop, and every
\* item of that wave and of the later ones is decided by the deadline
\* fallback, no request having ever been issued for it.
C5_NoFetchAfterDeadline ==
    [][(pc = "loop" /\ i < Len(needsScraping) /\ Elapsed > OVERALL_TIMEOUT_MS)
        => /\ issued' = issued
           /\ inFlight' = inFlight
           /\ pc' = "done"
           /\ \A k \in SeqToSet(Rest) :
                 decidedBy'[k] = "fallback" /\ issued'[k] = 0]_vars

C5_Witness ==
    /\ pc = "done"
    /\ \E k \in 1 .. N : \E j \in 1 .. N :
          /\ decidedBy[k] = "fallback" /\ issued[k] = 0
          /\ decidedBy[j] = "unknown" /\ issued[j] = 1

C7_FetchTimeoutWithinBudget ==
    pc = "await"
    => \A k \in SeqToSet(batch) :
          /\ fetchTimeout[k] <= remainingTime
          /\ fetchTimeout[k] <= SCRAPE_TIMEOUT_MS

C9_EventuallyReturns ==
    <>(pc = "done" /\ \A k \in 1 .. N : ~Undecided(k))

C9_Witness ==
    /\ pc = "done"
    /\ \A k \in 1 .. N : ~Undecided(k)
    /\ N > SCRAPE_CONCURRENCY
    /\ abandoned = N

\* C10: the output holds input items only, and no dropped item: none whose
\* provider date or scraped date is outside the range, and under strictMode
\* none without a date.
C10_OutputIsSubCollection ==
    \A p \in 1 .. Len(filteredResults) :
        LET k == filteredResults[p] IN
        /\ k \in 1 .. Len(input)
        /\ ~Undecided(k)
        /\ decidedBy[k] \in {"phase1", "scraped"}
             => /\ ParseDate(results[k].published_date) >= ParseDate(Ymd(startDate))
                /\ ParseDate(results[k].published_date) <= ParseDate(Ymd(endDate))
        /\ strictMode => decidedBy[k] \in {"phase1", "scraped"}

C10_Witness ==
    /\ pc = "done"
    /\ Len(filteredResults) > 0
    /\ \E k \in 1 .. N : k \notin Output /\ decidedBy[k] \in {"phase1", "scraped"}

\* C11: a second call on the same item objects, with the same range and
\* strictMode, returns the same set of items as the first, when every
\* resolution made in both calls behaved the same (an item for which the
\* first call found no date has none in the second either) and no item of
\* either call was left to the deadline fallback.
C11_SecondRunKeepsSameItems ==
    (/\ run = 2
     /\ pc = "done"
     /\ \A k \in 1 .. N :
           /\ firstDecided[k] # "fallback"
           /\ decidedBy[k] # "fallback"
           /\ firstDecided[k] = "unknown" => decidedBy[k] = "unknown")
    => Output = SeqToSet(firstOutput)

\* the calendar day of the date item k was decided on
CalendarDay(k) == ParseDate(results[k].published_date) \div DayMs

\* C12: an item with a resolved date, provided or scraped, is in the output
\* exactly when its calendar day d satisfies startDate <= d <= endDate, both
\* ends included.
C12_KeptIffCalendarDayInRange ==
    pc = "done"
    => \A k \in 1 .. N :
          decidedBy[k] \in {"phase1", "scraped"}
          => (k \in Output <=>
                (startDate <= CalendarDay(k) /\ CalendarDay(k) <= endDate))

\* C13: an item whose date_source is "scraped" holds, as published_date, the
\* day in YYYY-MM-DD form of a date extractDateFromUrl returned for it: the
\* two fields are written in one step from the resolved date, and the item
\* had no provider date the filter could use.
C13_ScrapedDateIsParserDate ==
    /\ [](\A k \in 1 .. N :
            results[k].date_source = "scraped"
            => /\ results[k].published_date.k = "ymd"
               /\ ~HasApiDate(input[k])
               /\ decidedBy[k] = "scraped")
    /\ [][\A k \in 1 .. N :
            (results'[k].date_source = "scraped"
                /\ results[k].date_source # "scraped")
            => /\ race[k].s = "date"
               /\ results'[k].published_date = Ymd(race[k].d \div DayMs)]_vars

C13_Witness ==
    /\ pc = "done"
    /\ \E k \in 1 .. N :
          /\ results[k].date_source = "scraped"
          /\ input[k].published_date = BadDateStr
          /\ results[k].published_date = Ymd(endDate)
          /\ k \notin Output

\* C14: an item decided from its own provider date has date_source
\* "provided" after the call, kept or dropped, and its published_date is as
\* the provider gave it.
C14_ProvidedProvenance ==
    pc = "done"
    => \A k \in 1 .. N :
          decidedBy[k] = "phase1"
          => /\ results[k].date_source = "provided"
             /\ results[k].published_date = input[k].published_date

\* the race of item k ended without a date: the resolver returned null, it
\* threw, or the timer won
Failed(k) == race[k].s \in {"null", "throw", "timeout"}

\* C15: a failure while resolving one item does not abort the call: when
\* the wave is folded the failed item is decided as one without a date (kept
\* iff strictMode is false, the item object untouched), every other item of
\* the wave is decided by its own result, the items outside the wave keep
\* their decision, and the loop goes on; once the call has returned every
\* item is decided.
C15_FailureIsolated ==
    /\ [][(pc = "await" /\ pc' # "await")
            => /\ pc' = "loop"
               /\ \A k \in SeqToSet(batch) :
                     /\ Failed(k)
                          => /\ decidedBy'[k] = "unknown"
                             /\ results'[k] = results[k]
                             /\ k \in SeqToSet(filteredResults') <=> ~strictMode
                     /\ race[k].s = "date"
                          => /\ decidedBy'[k] = "scraped"
                             /\ k \in SeqToSet(filteredResults') <=>
                                  (ParseDate(Ymd(startDate)) <= race[k].d
                                     /\ race[k].d <= ParseDate(Ymd(endDate)))
               /\ \A k \in (1 .. N) \ SeqToSet(batch) :
                     /\ decidedBy'[k] = decidedBy[k]
                     /\ k \in SeqToSet(filteredResults') <=> k \in Output]_vars
    /\ [](pc = "done" => \A k \in 1 .. N : ~Undecided(k))

C15_Witness ==
    /\ pc = "done"
    /\ \E k \in 1 .. N : \E j \in 1 .. N :
          /\ results[k].url = "nourl" /\ decidedBy[k] = "unknown"
          /\ decidedBy[j] = "scraped" /\ j \in Output

\* C16: a provider item whose date string does not parse reaches the
\* filter on either route, is not decided in phase 1, and once the call has
\* returned it has been decided by resolution: by the date scraped for it,
\* or as an item without a date.
C16_UnparseableDateIsResolved ==
    \A r \in 1 .. Len(provider) :
        (provider[r].published_date = BadDateStr /\ pc # "request")
        => \E k \in 1 .. Len(origin) :
              /\ origin[k] = r
              /\ decidedBy[k] # "phase1"
              /\ pc = "done" => decidedBy[k] \in {"scraped", "unknown", "fallback"}

\* the items of the waves before the one at index i
EarlierWaves == {needsScraping[p] : p \in 1 .. Min(i, Len(needsScraping))}

\* C17: waves run one after another.  A request is issued, and the deadline
\* fallback applied, only at the loop head, when no race is pending and
\* every item of the earlier waves has been decided and folded; the output
\* list changes only in phase 1, at the loop head, or in the fold of a wave
\* none of whose races is pending.
C17_WavesRunInSequence ==
    [][/\ ((issued' # issued)
             \/ (\E k \in 1 .. N :
                    decidedBy'[k] = "fallback" /\ decidedBy[k] # "fallback"))
            => /\ pc = "loop"
               /\ \A k \in 1 .. N : race[k].s # "pending"
               /\ \A k \in EarlierWaves : decidedBy[k] \in {"scraped", "unknown"}
       /\ (filteredResults' # filteredResults /\ run' = run)
            => \/ pc \in {"start", "loop"}
               \/ /\ pc = "await"
                  /\ \A k \in SeqToSet(batch) : race[k].s # "pending"
                  /\ \A k \in SeqToSet(batch) : decidedBy'[k] # "none"]_vars

C17_Witness ==
    /\ pc = "await"
    /\ i = SCRAPE_CONCURRENCY
    /\ Len(filteredResults) = SCRAPE_CONCURRENCY
    /\ \E k \in SeqToSet(batch) : race[k].s = "pending" /\ issued[k] = 1
    /\ abandoned > 0

\* C18: when the timeout of an item's resolution has fired, the request
\* issued for that item is no longer in flight.
C18_TimeoutCancelsFetch ==
    \A k \in 1 .. N : race[k].s = "timeout" => inFlight[k] = 0

\* C19: a resolution that has settled for a url issued exactly one network
\* request, whatever the document is.
C19_OneRequestPerResolution ==
    (rPc = "done" /\ rUrl # "nourl") => rRequests = 1

\* what each strategy finds in the document of the resolution, in the order
\* meta tags, JSON-LD, time element, url path, text patterns, class patterns
StrategyDates ==
    <<DateOf(rDoc.meta), JsonLdDate(rDoc.jsonld), DateOf(rDoc.time),
      UrlPathDate(rPath), DateOf(rDoc.text), DateOf(rDoc.class)>>

\* C20: for a markup document the resolved date is the date of the first
\* strategy, in the order meta tags, JSON-LD, time element, url path, text
\* patterns, class patterns, that yields a valid date, and null when none
\* does.
C20_FirstStrategyWins ==
    (rPc = "done" /\ rUrl = "html" /\ rDoc.resp = "html")
    => LET valid == {r \in 1 .. Len(StrategyDates) : StrategyDates[r] # NaN} IN
         /\ valid = {} => rResult = [s |-> "null", d |-> NaN]
         /\ \A r \in valid :
               (\A q \in valid : r <= q)
               => rResult = [s |-> "date", d |-> StrategyDates[r]]

C20_Witness ==
    /\ rPc = "done"
    /\ rUrl = "html"
    /\ rDoc.resp = "html"
    /\ rDoc.meta = Ymd(2)
    /\ rDoc.text = Ymd(1)
    /\ rRequests = 1
    /\ rResult = [s |-> "date", d |-> 2 * DayMs]

\* the resolution has settled for a document that is a PDF
PdfResolved == rPc = "done" /\ rDoc.resp = "pdf"

\* C21: for a PDF the resolved date is the creation date when it is valid,
\* else the modification date when that is valid, whatever the text holds;
\* the date of the text is the result only when neither is valid.
C21_PdfMetadataWins ==
    PdfResolved
    => /\ (Truthy(rDoc.creation) /\ ParseDate(rDoc.creation) # NaN)
            => rResult = [s |-> "date", d |-> ParseDate(rDoc.creation)]
       /\ (~(Truthy(rDoc.creation) /\ ParseDate(rDoc.creation) # NaN)
             /\ Truthy(rDoc.mod) /\ ParseDate(rDoc.mod) # NaN)
            => rResult = [s |-> "date", d |-> ParseDate(rDoc.mod)]

C21_Witness ==
    /\ PdfResolved
    /\ rUrl = "pdf"
    /\ rDoc.creation = BadDateStr
    /\ rDoc.mod = Ymd(2)
    /\ rDoc.pdftext = Ymd(1)
    /\ rResult = [s |-> "date", d |-> 2 * DayMs]

\* C22: every PDF, found by the .pdf suffix of its url or by the content
\* type of the response, for which metadata and text yield no date resolves
\* to the date of its url path when the path holds a valid one.
C22_PdfFallsBackToUrlPath ==
    (/\ PdfResolved
     /\ ExtractDateFromPdf(rDoc) = NaN
     /\ UrlPathDate(rPath) # NaN)
    => rResult = [s |-> "date", d |-> UrlPathDate(rPath)]

\* no part of the document of the resolution holds a valid date
NoDocDate ==
    /\ DateOf(rDoc.meta) = NaN
    /\ JsonLdDate(rDoc.jsonld) = NaN
    /\ DateOf(rDoc.time) = NaN
    /\ DateOf(rDoc.text) = NaN
    /\ DateOf(rDoc.class) = NaN
    /\ DateOf(rDoc.creation) = NaN
    /\ DateOf(rDoc.mod) = NaN
    /\ DateOf(rDoc.pdftext) = NaN

\* C23: a resolution for a url with a /YYYY/MM/ segment, when nothing else
\* gives a date, settles with the 15th of that month, and with the day of
\* the segment when the url has /YYYY/MM/DD/.
C23_UrlPathGivesMidMonth ==
    (rPc = "done" /\ rUrl # "nourl" /\ NoDocDate)
    => /\ rPath.k = "ym"
            => rResult = [s |-> "date", d |-> (30 * rPath.v + 14) * DayMs]
       /\ rPath.k = "ymd"
            => rResult = [s |-> "date", d |-> rPath.v * DayMs]

\* the parts of a block that can hold a date
BlockParts(b) == <<b.pub, b.created, b.gpub, b.gcreated>>

\* the date a block is to give: none when it does not parse or holds an
\* invalid date value, else its first valid datePublished or dateCreated,
\* its own or of its @graph
BlockDate(b) ==
    IF b = BadJson \/ (\E p \in 1 .. 4 : BlockParts(b)[p] = BadDateStr) THEN NaN
    ELSE IF \E p \in 1 .. 4 : Truthy(BlockParts(b)[p])
      THEN ParseDate(BlockParts(b)[CHOOSE p \in 1 .. 4 :
                 /\ Truthy(BlockParts(b)[p])
                 /\ \A q \in 1 .. p - 1 : ~Truthy(BlockParts(b)[q])])
      ELSE NaN

\* C24: when the meta tags give no date, the scan of the JSON-LD blocks
\* passes over every block that does not parse or holds an invalid date and
\* returns the date of the first block that holds a valid datePublished or
\* dateCreated, directly or in its @graph; when no block does, the result
\* is that of the strategies after JSON-LD.
C24_JsonLdScanSkipsBadBlocks ==
    (rPc = "done" /\ rUrl = "html" /\ rDoc.resp = "html" /\ DateOf(rDoc.meta) = NaN)
    => LET good == {n \in 1 .. Len(rDoc.jsonld) : BlockDate(rDoc.jsonld[n]) # NaN} IN
         /\ \A n \in good :
               (\A q \in good : n <= q)
               => rResult = [s |-> "date", d |-> BlockDate(rDoc.jsonld[n])]
         /\ good = {}
               => rResult = Found(ExtractFromHtml([rDoc EXCEPT !.jsonld = <<>>], rPath))

\* attempt outcome o is a failure with an overloaded error: status 529, or
\* an error message containing 'overloaded'
OverloadedFailure(o) ==
    /\ o.kind = "fail"
    /\ o.status = 529 \/ IncludesOverloaded(ToLowerCase(ErrorMessage(o)))

\* the message of the error a failed attempt ends with
FailureMessage(o) == IF o.kind = "throw" THEN o.body.msg ELSE ErrorMessage(o)

\* C25: one request to /api/generate issues at most 3 upstream requests;
\* request k+1 is issued only after attempt k failed with an overloaded
\* error, with k < 3, and after a wait of 5*k seconds; any other failed
\* attempt, and a third overloaded one, is the last, and its error is what
\* the handler reports.
C25_RetryOnlyWhenOverloaded ==
    /\ gRequests <= 3
    /\ \A k \in 1 .. (gRequests - 1) :
          /\ k < 3
          /\ OverloadedFailure(gHistory[k])
          /\ Len(gWaits) >= k
          /\ gWaits[k] = 5 * k
    /\ \A k \in 1 .. Len(gHistory) :
          (/\ gHistory[k].kind \in {"fail", "throw"}
           /\ ~(OverloadedFailure(gHistory[k]) /\ k < 3))
          => /\ gRequests = k
             /\ gPc = "done"
             /\ gWire = <<Json500(FailureMessage(gHistory[k]))>>

\* three overloaded attempts, the third of which ended the call
C25_Witness ==
    /\ gPc = "done"
    /\ gRequests = 3
    /\ Len(gHistory) = 3
    /\ \A k \in 1 .. 3 : OverloadedFailure(gHistory[k])
    /\ gWaits = <<5, 10>>

HeadersWritten == Len(gWire) > 0 /\ gWire[1] = Head200

StatusLines == {k \in 1 .. Len(gWire) : gWire[k].t \in {"head200", "json500"}}

\* C26: the 200 event-stream headers are written only after an upstream
\* attempt succeeded, and no upstream request is issued once they are
\* written; an attempt that fails for good is answered by one JSON 500
\* response and nothing else; a failure after the headers is answered by an
\* SSE error event and the end of the response; the response never has a
\* second status line.
C26_RetriesBeforeStreaming ==
    /\ [](/\ HeadersWritten
             => /\ gRequests = Len(SelectSeq(gHistory, LAMBDA o : o.kind # "reject"))
                /\ gHistory[gRequests] = Ok
          /\ Cardinality(StatusLines) <= 1
          /\ (gPc = "done" /\ gHistory[Len(gHistory)].kind \in {"fail", "throw"})
             => /\ Len(gWire) = 1
                /\ gWire[1].t = "json500"
          /\ (gHistory # <<>> /\ gHistory[Len(gHistory)].kind = "reject")
             => /\ gPc = "done"
                /\ HeadersWritten
                /\ Len(gWire) >= 3
                /\ gWire[Len(gWire) - 1]
                     = ErrorEvent(gHistory[Len(gHistory)].body.msg)
                /\ gWire[Len(gWire)] = End)
    /\ [][HeadersWritten => gRequests' = gRequests]_vars

\* a read of the upstream stream was rejected after a delta had been
\* forwarded
C26_Witness ==
    /\ gPc = "done"
    /\ gHistory[Len(gHistory)].kind = "reject"
    /\ Len(gWire) > 3
    /\ gRequests > 1

\* an error event is among the events the client has processed
ErrorEventProcessed ==
    \E k \in 2 .. cPos : k <= Len(gWire) /\ gWire[k].t = "error"

\* C27: once the client has processed an SSE event of type error, its call
\* has ended rejected, whatever the message of the event, and it returns
\* no report.
C27_ErrorEventRejects ==
    ErrorEventProcessed => cPc = "done" /\ cOutcome.kind = "rejected"

NoDuplicates(q) ==
    \A a, b \in 1 .. Len(q) : a # b => q[a] # q[b]

\* the items of needsScraping the loop has passed: those of the waves
\* folded so far
Passed(j) == j <= i

\* C28: every item is decided exactly once per call. The items needing
\* resolution are each in needsScraping once; the wave being awaited is the
\* slice that follows the items already decided, and holds undecided items
\* only; no item has more than one request issued for it; a decision, once
\* taken, is not taken again; when the call returns every item is decided,
\* and no item is in the output twice.
C28_DecidedExactlyOnce ==
    /\ [](/\ \A k \in 1 .. N : issued[k] <= 1
          /\ NoDuplicates(filteredResults)
          /\ NoDuplicates(needsScraping)
          /\ pc = "done" => \A k \in 1 .. N : ~Undecided(k)
          /\ pc \in {"loop", "await"}
             => /\ \A k \in 1 .. N :
                      (decidedBy[k] = "phase1") <=> (k \notin SeqToSet(needsScraping))
                /\ \A j \in 1 .. Len(needsScraping) :
                      Passed(j) <=> ~Undecided(needsScraping[j])
          /\ pc = "await"
             => /\ batch = SubSeq(needsScraping, i + 1,
                                   Min(i + 5, Len(needsScraping)))
                /\ \A j \in 1 .. Len(batch) : Undecided(batch[j]))
    /\ [][\A k \in 1 .. N :
            /\ ~Undecided(k) => decidedBy'[k] = decidedBy[k]
            /\ ~Undecided(k) => issued'[k] = issued[k]
            /\ (Undecided(k) /\ ~Undecided(k)')
               => \/ decidedBy'[k] = "phase1" /\ pc = "start"
                  \/ decidedBy'[k] = "fallback" /\ k \in SeqToSet(Rest)
                  \/ decidedBy'[k] \in {"scraped", "unknown"}
                       /\ k \in SeqToSet(batch)]_vars

\* a call that returned after two waves and decided items on every path
\* but the fallback
C28_Witness ==
    /\ pc = "done"
    /\ N > 5
    /\ i > 5
    /\ \E k \in 1 .. N : decidedBy[k] = "scraped"
    /\ \E k \in 1 .. N : decidedBy[k] = "unknown"
    /\ \A k \in 1 .. N : issued[k] = 1

\* C29: the filter writes published_date only on the items a date was
\* scraped for, kept or dropped: the items decided in phase 1, those no date
\* was found for and those decided by the deadline fallback have the
\* published_date they came with, and every item has its title, url and
\* content, at every point of the call.
C29_OnlyScrapedItemsChange ==
    \A k \in 1 .. N :
        /\ results[k].title = input[k].title
        /\ results[k].url = input[k].url
        /\ results[k].content = input[k].content
        /\ decidedBy[k] # "scraped"
           => results[k].published_date = input[k].published_date

\* a returned call with an item that kept an unparseable date because no
\* date was found for it, and a scraped item that was dropped with its new
\* date
C29_Witness ==
    /\ pc = "done"
    /\ \E k \in 1 .. N :
          /\ decidedBy[k] = "unknown"
          /\ results[k].published_date = BadDateStr
    /\ \E k \in 1 .. N :
          /\ decidedBy[k] = "scraped"
          /\ k \notin Output
          /\ results[k].published_date # input[k].published_date

\* what the sequential filter of date-filter-module.js does with an item
\* whose resolution settles with r: it pushes the item ("keep"), leaves it
\* out ("drop"), or, when extractDateFromUrl throws, rejects as a whole
\* ("reject"), as the await is in no try block
SequentialDecision(item, r) ==
    IF Truthy(item.published_date) /\ ~isNaN(ParseDate(item.published_date))
      THEN IF /\ ParseDate(item.published_date) >= startMs
              /\ ParseDate(item.published_date) <= endMs
             THEN "keep" ELSE "drop"
    ELSE IF r.s = "throw" THEN "reject"
    ELSE IF r.s = "date"
      THEN IF r.d >= startMs /\ r.d <= endMs THEN "keep" ELSE "drop"
    ELSE "keep"

\* item k is decided in this step, not by the deadline fallback and not
\* with a timer having won its race
DecidedNoTimeout(k) ==
    /\ Undecided(k)
    /\ decidedBy'[k] \in {"phase1", "scraped", "unknown"}
    /\ race[k].s # "timeout"

====
